---------------------------- MODULE Spec2Model ----------------------------
(***************************************************************************)
(* A model of gemini-veo-meta.py: the text sanitizer, the script generator *)
(* with its retry loop, and the prompt reducer / video generator.          *)
(*                                                                         *)
(* Text is a sequence of characters; a character is a one-character string *)
(* or, for the characters that have no printable form, its code point      *)
(* written "U+XXXX".                                                       *)
(***************************************************************************)
EXTENDS Integers, Sequences, FiniteSets, TLC

(***************************************************************************)
(* Characters                                                              *)
(***************************************************************************)
DQ == "\""
BS == "\\"
NUL == "U+0000"
SOH == "U+0001"
BSP == "U+0008"
TAB == "U+0009"
LF == "U+000A"
FF == "U+000C"
CR == "U+000D"
FS == "U+001C"
DEL == "U+007F"
NEL == "U+0085"
BACKTICK == "U+0060"
NBSP == "U+00A0"
PLUSMINUS == "U+00B1"
ENDASH == "U+2013"
EMDASH == "U+2014"
LDQUO == "U+201C"
RDQUO == "U+201D"
ELLIPSIS == "U+2026"
APPROX == "U+2248"
INFINITY == "U+221E"

\* The characters matched by \s in a Python str pattern (str.isspace), among
\* the characters of the model.
PyWhitespace == {" ", TAB, LF, FF, CR, FS, NEL, NBSP}

\* The characters matched by [\x00-\x1f\x7f-\x9f], among the characters of
\* the model.
ControlChars == {NUL, SOH, BSP, TAB, LF, FF, CR, FS, DEL, NEL}

(***************************************************************************)
(* Python str operations on character sequences.  Texts may be hundreds of *)
(* characters long, so the operators recurse on halves or on matches, not  *)
(* on single characters.                                                   *)
(***************************************************************************)
Min(S) == CHOOSE m \in S : \A k \in S : m <= k

Max(S) == 0 - Min({0 - k : k \in S})

\* The concatenation of a sequence of texts.
RECURSIVE Flatten(_)
Flatten(ss) ==
    IF Len(ss) = 0 THEN <<>>
    ELSE IF Len(ss) = 1 THEN ss[1]
    ELSE LET h == Len(ss) \div 2
         IN  Flatten(SubSeq(ss, 1, h)) \o Flatten(SubSeq(ss, h + 1, Len(ss)))

\* s[:n]
Prefix(s, n) == SubSeq(s, 1, IF n < Len(s) THEN n ELSE Len(s))

\* s.startswith(p)
StartsWith(s, p) == Len(p) <= Len(s) /\ SubSeq(s, 1, Len(p)) = p

\* s.endswith(p)
EndsWith(s, p) ==
    Len(p) <= Len(s) /\ SubSeq(s, Len(s) - Len(p) + 1, Len(s)) = p

\* s.strip(chars): the characters of the set are removed from both ends.
StripChars(s, chars) ==
    LET keep == {i \in 1..Len(s) : s[i] \notin chars}
    IN  IF keep = {} THEN <<>> ELSE SubSeq(s, Min(keep), Max(keep))

\* s.strip()
Strip(s) == StripChars(s, PyWhitespace)

\* True iff old occurs in s at position i.
OccursAt(s, i, old) ==
    /\ i >= 1
    /\ i + Len(old) - 1 <= Len(s)
    /\ SubSeq(s, i, i + Len(old) - 1) = old

\* s[from:].replace(old, new) for a non-empty old: the occurrences are taken
\* from the left and do not overlap.
RECURSIVE ReplaceFrom(_, _, _, _)
ReplaceFrom(s, from, old, new) ==
    LET ms == {i \in from..(Len(s) - Len(old) + 1) : OccursAt(s, i, old)}
    IN  IF ms = {} THEN SubSeq(s, from, Len(s))
        ELSE LET m == Min(ms)
             IN  SubSeq(s, from, m - 1) \o new
                     \o ReplaceFrom(s, m + Len(old), old, new)

\* s.replace(old, new) for a non-empty old.
Replace(s, old, new) ==
    IF \A i \in 1..Len(s) : s[i] # old[1] THEN s
    ELSE IF Len(old) = 1
    THEN Flatten([i \in 1..Len(s) |-> IF s[i] = old[1] THEN new ELSE <<s[i]>>])
    ELSE ReplaceFrom(s, 1, old, new)

\* re.sub(r'\s+', ' ', s): every maximal run of whitespace becomes one space.
CollapseWhitespace(s) ==
    LET first(i) == i = 1 \/ s[i - 1] \notin PyWhitespace
        keep == {i \in 1..Len(s) : s[i] \notin PyWhitespace \/ first(i)}
        idx == SelectSeq([i \in 1..Len(s) |-> i], LAMBDA i : i \in keep)
    IN  [k \in 1..Len(idx) |->
            IF s[idx[k]] \in PyWhitespace THEN " " ELSE s[idx[k]]]

\* RemoveControl without the range \x7f-\x9f.
RemoveControlC0Only(s) ==
    SelectSeq(s, LAMBDA c : c \notin ControlChars \ {DEL, NEL})

\* re.sub(r'[\x00-\x1f\x7f-\x9f]', '', s)
RemoveControl(s) == SelectSeq(s, LAMBDA c : c \notin ControlChars)

(***************************************************************************)
(* sanitize_prompt                                                         *)
(***************************************************************************)
\* The dict literal of sanitize_prompt, in insertion order.  The file holds
\* the first two keys as the straight double quote (one dict entry), and the
\* text between the two ''' that follow as one key.
replacements ==
    << <<  <<DQ>>, <<DQ>>  >>,
       <<  <<":", " ", DQ, "'", DQ, ",", LF,
             " ", " ", " ", " ", " ", " ", " ", " ">>,
           <<"'">>  >>,
       <<  <<"~", "1", "0", "^", "2", "6">>,
           <<"a", "p", "p", "r", "o", "x", "i", "m", "a", "t", "e", "l", "y",
             " ", "1", "0", " ", "t", "o", " ", "t", "h", "e", " ", "p", "o",
             "w", "e", "r", " ", "o", "f", " ", "2", "6">>  >>,
       <<  <<"^">>,
           <<" ", "t", "o", " ", "t", "h", "e", " ", "p", "o", "w", "e", "r",
             " ", "o", "f", " ">>  >>,
       <<  <<APPROX>>,
           <<"a", "p", "p", "r", "o", "x", "i", "m", "a", "t", "e", "l", "y">>  >>,
       <<  <<PLUSMINUS>>,
           <<"p", "l", "u", "s", " ", "o", "r", " ", "m", "i", "n", "u", "s">>  >>,
       <<  <<INFINITY>>, <<"i", "n", "f", "i", "n", "i", "t", "y">>  >>,
       <<  <<ELLIPSIS>>, <<".", ".", ".">>  >>,
       <<  <<ENDASH>>, <<"-">>  >>,
       <<  <<EMDASH>>, <<"-">>  >>,
       <<  <<NUL>>, <<>>  >>,
       <<  <<CR>>, <<" ">>  >>,
       <<  <<TAB>>, <<" ">>  >> >>

\* for old, new in replacements.items(): text = text.replace(old, new),
\* for the first n entries.
RECURSIVE ApplyReplacements(_, _)
ApplyReplacements(text, n) ==
    IF n = 0 THEN text
    ELSE Replace(ApplyReplacements(text, n - 1),
                 replacements[n][1], replacements[n][2])

\* The escaping of sanitize_prompt: backslashes, then double quotes.
EscapeForJson(text) == Replace(Replace(text, <<BS>>, <<BS, BS>>), <<DQ>>, <<BS, DQ>>)

sanitize_prompt(text, escape_for_json) ==
    IF text = <<>> THEN text
    ELSE LET replaced == ApplyReplacements(text, Len(replacements))
             collapsed == CollapseWhitespace(replaced)
             escaped == IF escape_for_json THEN EscapeForJson(collapsed)
                        ELSE collapsed
         IN  Strip(RemoveControl(escaped))

(***************************************************************************)
(* JSON documents and json.loads                                           *)
(*                                                                         *)
(* A document is a record: t is its type, s the characters of a string or  *)
(* the digits of a number, kv the items of an array or the <<key, value>>  *)
(* pairs of an object, in insertion order.                                 *)
(***************************************************************************)
JNull == [t |-> "null", s |-> <<>>, kv |-> <<>>]

JTrue == [t |-> "true", s |-> <<>>, kv |-> <<>>]

JFalse == [t |-> "false", s |-> <<>>, kv |-> <<>>]

JNum(digits) == [t |-> "num", s |-> digits, kv |-> <<>>]

JStr(chars) == [t |-> "str", s |-> chars, kv |-> <<>>]

JArr(items) == [t |-> "arr", s |-> <<>>, kv |-> items]

JObj(pairs) == [t |-> "obj", s |-> <<>>, kv |-> pairs]

\* The whitespace of the JSON grammar.
JsonWhitespace == {" ", TAB, LF, CR}

Digits == {"0", "1", "2", "3", "4", "5", "6", "7", "8", "9"}

\* The characters a JSON string may not hold unescaped (strict mode): those
\* below U+0020, among the characters of the model.
JsonStringForbidden == {NUL, SOH, BSP, TAB, LF, FF, CR, FS}

\* The result of a parse step: the document and the position after it.
ParseFail == [ok |-> FALSE, v |-> JNull, next |-> 0]

ParseOk(v, next) == [ok |-> TRUE, v |-> v, next |-> next]

\* The first position from i on that holds no JSON whitespace.
SkipWhitespace(s, i) ==
    LET rest == {j \in i..Len(s) : s[j] \notin JsonWhitespace}
    IN  IF i > Len(s) \/ s[i] \notin JsonWhitespace THEN i
        ELSE IF rest = {} THEN Len(s) + 1 ELSE Min(rest)

\* The number of consecutive backslashes that end right before position j,
\* none of them before position lo.
BackslashesBefore(s, lo, j) ==
    LET others == {k \in lo..(j - 1) : s[k] # BS}
    IN  IF j - 1 < lo \/ s[j - 1] # BS THEN 0
        ELSE IF others = {} THEN j - lo ELSE j - 1 - Max(others)

\* The code points of the characters written "U+XXXX", as json.dumps writes
\* them after \u.
CodePoints ==
    << <<NUL, <<"0", "0", "0", "0">> >>, <<SOH, <<"0", "0", "0", "1">> >>,
       <<BSP, <<"0", "0", "0", "8">> >>, <<TAB, <<"0", "0", "0", "9">> >>,
       <<LF, <<"0", "0", "0", "a">> >>, <<FF, <<"0", "0", "0", "c">> >>,
       <<CR, <<"0", "0", "0", "d">> >>, <<FS, <<"0", "0", "1", "c">> >>,
       <<BACKTICK, <<"0", "0", "6", "0">> >>, <<DEL, <<"0", "0", "7", "f">> >>,
       <<NEL, <<"0", "0", "8", "5">> >>, <<NBSP, <<"0", "0", "a", "0">> >>,
       <<PLUSMINUS, <<"0", "0", "b", "1">> >>, <<ENDASH, <<"2", "0", "1", "3">> >>,
       <<EMDASH, <<"2", "0", "1", "4">> >>, <<LDQUO, <<"2", "0", "1", "c">> >>,
       <<RDQUO, <<"2", "0", "1", "d">> >>, <<ELLIPSIS, <<"2", "0", "2", "6">> >>,
       <<APPROX, <<"2", "2", "4", "8">> >>, <<INFINITY, <<"2", "2", "1", "e">> >> >>

\* The lower-case form of a hexadecimal digit.
LowerHex(c) ==
    CASE c = "A" -> "a" [] c = "B" -> "b" [] c = "C" -> "c"
      [] c = "D" -> "d" [] c = "E" -> "e" [] c = "F" -> "f"
      [] OTHER -> c

\* The character \uXXXX stands for, <<>> when there is none in the model:
\* only the characters of CodePoints are modelled.
UnescapeU(hex) ==
    LET h == [k \in 1..Len(hex) |-> LowerHex(hex[k])]
        hit == {k \in 1..Len(CodePoints) : CodePoints[k][2] = h}
    IN  IF hit = {} THEN <<>> ELSE <<CodePoints[Min(hit)][1]>>

\* The character a one-letter backslash escape stands for, <<>> for an
\* invalid escape.
Unescape(c) ==
    CASE c = DQ -> <<DQ>>
      [] c = BS -> <<BS>>
      [] c = "/" -> <<"/">>
      [] c = "b" -> <<BSP>>
      [] c = "f" -> <<FF>>
      [] c = "n" -> <<LF>>
      [] c = "r" -> <<CR>>
      [] c = "t" -> <<TAB>>
      [] OTHER -> <<>>

\* A string literal whose opening quote is at position i.
ParseString(s, i) ==
    LET closing == {j \in (i + 1)..Len(s) :
                        s[j] = DQ /\ BackslashesBefore(s, i + 1, j) % 2 = 0}
    IN  IF closing = {} THEN ParseFail
        ELSE LET close == Min(closing)
                 starts(p) == s[p] = BS /\ BackslashesBefore(s, i + 1, p) % 2 = 0
                 escaped(p) == p > i + 1 /\ starts(p - 1)
                 uescape(p) == escaped(p) /\ s[p] = "u"
                 hex(p) == SubSeq(s, p + 1, IF p + 4 < close THEN p + 4
                                            ELSE close - 1)
                 inhex(p) == \E q \in (p - 4)..(p - 1) : q > i /\ uescape(q)
                 decoded(p) == IF uescape(p) THEN UnescapeU(hex(p))
                               ELSE Unescape(s[p])
                 piece(p) == IF escaped(p) THEN decoded(p)
                             ELSE IF starts(p) \/ inhex(p) THEN <<>>
                             ELSE <<s[p]>>
                 bad == {p \in (i + 1)..(close - 1) :
                            \/ escaped(p) /\ decoded(p) = <<>>
                            \/ ~escaped(p) /\ s[p] \in JsonStringForbidden}
             IN  IF bad # {} THEN ParseFail
                 ELSE ParseOk(JStr(Flatten([k \in 1..(close - 1 - i) |->
                                                piece(i + k)])),
                              close + 1)

\* A number at position i: an optional minus and digits without a leading
\* zero; s holds str() of the int.  Fractions and exponents are not modelled.
ParseNumber(s, i) ==
    LET from == IF s[i] = "-" THEN i + 1 ELSE i
        nondigit == {j \in from..Len(s) : s[j] \notin Digits}
        stop == IF nondigit = {} THEN Len(s) + 1 ELSE Min(nondigit)
        end == IF from <= Len(s) /\ s[from] = "0" THEN from + 1 ELSE stop
    IN  IF end = from THEN ParseFail
        ELSE ParseOk(JNum(IF SubSeq(s, i, end - 1) = <<"-", "0">> THEN <<"0">>
                          ELSE SubSeq(s, i, end - 1)), end)

\* d[key] = value on the pairs of a dict: a key keeps its first position.
DictSet(pairs, key, value) ==
    IF \E k \in 1..Len(pairs) : pairs[k][1] = key
    THEN [k \in 1..Len(pairs) |->
            IF pairs[k][1] = key THEN <<key, value>> ELSE pairs[k]]
    ELSE Append(pairs, <<key, value>>)

RECURSIVE ParseValue(_, _)
RECURSIVE ParseElements(_, _, _)
RECURSIVE ParseMembers(_, _, _)

\* What follows an element of an array, at the position j after the
\* whitespace behind it: the end of the array or the next element.
ElementsSeparator(s, j, items) ==
    IF j > Len(s) THEN ParseFail
    ELSE IF s[j] = "]" THEN ParseOk(JArr(items), j + 1)
    ELSE IF s[j] = "," THEN ParseElements(s, j + 1, items)
    ELSE ParseFail

\* The array after its element e was read.
ElementsAfter(s, e, items) ==
    IF ~e.ok THEN ParseFail
    ELSE ElementsSeparator(s, SkipWhitespace(s, e.next), Append(items, e.v))

\* The elements of an array from position i on, after the items read so far.
ParseElements(s, i, items) ==
    ElementsAfter(s, ParseValue(s, SkipWhitespace(s, i)), items)

\* What follows a member of an object, at the position j after the
\* whitespace behind it: the end of the object or the next member.
MembersSeparator(s, j, pairs) ==
    IF j > Len(s) THEN ParseFail
    ELSE IF s[j] = "}" THEN ParseOk(JObj(pairs), j + 1)
    ELSE IF s[j] = "," THEN ParseMembers(s, j + 1, pairs)
    ELSE ParseFail

\* The object after the value val of its member key was read.
MembersAfter(s, key, val, pairs) ==
    IF ~val.ok THEN ParseFail
    ELSE MembersSeparator(s, SkipWhitespace(s, val.next),
                          DictSet(pairs, key, val.v))

\* The value of the member key, behind the colon expected at position c.
MemberValue(s, c, key, pairs) ==
    IF c <= Len(s) /\ s[c] = ":"
    THEN MembersAfter(s, key, ParseValue(s, SkipWhitespace(s, c + 1)), pairs)
    ELSE ParseFail

\* The member whose key was read as k.
MemberOf(s, k, pairs) ==
    IF ~k.ok THEN ParseFail
    ELSE MemberValue(s, SkipWhitespace(s, k.next), k.v.s, pairs)

\* The member whose key is expected at position i.
MemberAt(s, i, pairs) ==
    IF i <= Len(s) /\ s[i] = DQ THEN MemberOf(s, ParseString(s, i), pairs)
    ELSE ParseFail

\* The members of an object from position i on, after the pairs read so far.
ParseMembers(s, i, pairs) == MemberAt(s, SkipWhitespace(s, i), pairs)

\* The object or array opened at position i, whose first token is at j.
ParseContainer(s, i, j) ==
    IF s[i] = "{"
    THEN IF j <= Len(s) /\ s[j] = "}" THEN ParseOk(JObj(<<>>), j + 1)
         ELSE ParseMembers(s, i + 1, <<>>)
    ELSE IF j <= Len(s) /\ s[j] = "]" THEN ParseOk(JArr(<<>>), j + 1)
         ELSE ParseElements(s, i + 1, <<>>)

\* The document that starts at position i.
ParseValue(s, i) ==
    IF i > Len(s) THEN ParseFail
    ELSE IF s[i] = DQ THEN ParseString(s, i)
    ELSE IF s[i] \in {"{", "["}
         THEN ParseContainer(s, i, SkipWhitespace(s, i + 1))
    ELSE IF OccursAt(s, i, <<"n", "u", "l", "l">>) THEN ParseOk(JNull, i + 4)
    ELSE IF OccursAt(s, i, <<"t", "r", "u", "e">>) THEN ParseOk(JTrue, i + 4)
    ELSE IF OccursAt(s, i, <<"f", "a", "l", "s", "e">>) THEN ParseOk(JFalse, i + 5)
    ELSE IF s[i] = "-" \/ s[i] \in Digits THEN ParseNumber(s, i)
    ELSE ParseFail

\* The document r read from s, when nothing but whitespace follows it.
WholeDocument(s, r) ==
    IF r.ok /\ SkipWhitespace(s, r.next) > Len(s) THEN r ELSE ParseFail

\* json.loads(s): ok is FALSE where json.loads raises JSONDecodeError.
json_loads(s) == WholeDocument(s, ParseValue(s, SkipWhitespace(s, 1)))

(***************************************************************************)
(* json.dumps, str() and the accesses of Python values                     *)
(***************************************************************************)
\* sep.join(texts)
Join(texts, sep) ==
    Flatten([k \in 1..(2 * Len(texts) - 1) |->
                IF k % 2 = 1 THEN texts[(k + 1) \div 2] ELSE sep])

\* The \uXXXX form of a character of CodePoints.
EscapeU(c) ==
    LET k == CHOOSE k \in 1..Len(CodePoints) : CodePoints[k][1] = c
    IN  <<BS, "u">> \o CodePoints[k][2]

\* A character in a string written by json.dumps (ensure_ascii).
JsonEscape(c) ==
    CASE c = DQ -> <<BS, DQ>>
      [] c = BS -> <<BS, BS>>
      [] c = LF -> <<BS, "n">>
      [] c = CR -> <<BS, "r">>
      [] c = TAB -> <<BS, "t">>
      [] c = BSP -> <<BS, "b">>
      [] c = FF -> <<BS, "f">>
      [] c \in {NUL, SOH, FS, DEL, NEL, NBSP, PLUSMINUS, ENDASH, EMDASH, LDQUO,
                RDQUO, ELLIPSIS, APPROX, INFINITY} -> EscapeU(c)
      [] OTHER -> <<c>>

DumpString(chars) ==
    <<DQ>> \o Flatten([k \in 1..Len(chars) |-> JsonEscape(chars[k])]) \o <<DQ>>

\* json.dumps(v) with the default separators.
RECURSIVE json_dumps(_)
json_dumps(v) ==
    CASE v.t = "null" -> <<"n", "u", "l", "l">>
      [] v.t = "true" -> <<"t", "r", "u", "e">>
      [] v.t = "false" -> <<"f", "a", "l", "s", "e">>
      [] v.t = "num" -> v.s
      [] v.t = "str" -> DumpString(v.s)
      [] v.t = "arr" ->
            <<"[">> \o Join([k \in 1..Len(v.kv) |-> json_dumps(v.kv[k])],
                            <<",", " ">>) \o <<"]">>
      [] v.t = "obj" ->
            <<"{">> \o Join([k \in 1..Len(v.kv) |->
                                DumpString(v.kv[k][1]) \o <<":", " ">>
                                    \o json_dumps(v.kv[k][2])],
                            <<",", " ">>) \o <<"}">>

\* A character in the repr of a str that is quoted with the character quote.
ReprEscape(c, quote) ==
    CASE c = BS -> <<BS, BS>>
      [] c = quote -> <<BS, quote>>
      [] c = LF -> <<BS, "n">>
      [] c = CR -> <<BS, "r">>
      [] c = TAB -> <<BS, "t">>
      [] c \in {NUL, SOH, BSP, FF, FS, DEL, NEL, NBSP} ->
            LET k == CHOOSE k \in 1..Len(CodePoints) : CodePoints[k][1] = c
            IN  <<BS, "x">> \o SubSeq(CodePoints[k][2], 3, 4)
      [] OTHER -> <<c>>

\* repr() of a str.
ReprString(chars) ==
    LET has(c) == \E k \in 1..Len(chars) : chars[k] = c
        quote == IF has("'") /\ ~has(DQ) THEN DQ ELSE "'"
    IN  <<quote>> \o Flatten([k \in 1..Len(chars) |-> ReprEscape(chars[k], quote)])
            \o <<quote>>

\* repr() of a parsed document.
RECURSIVE PyRepr(_)
PyRepr(v) ==
    CASE v.t = "null" -> <<"N", "o", "n", "e">>
      [] v.t = "true" -> <<"T", "r", "u", "e">>
      [] v.t = "false" -> <<"F", "a", "l", "s", "e">>
      [] v.t = "num" -> v.s
      [] v.t = "str" -> ReprString(v.s)
      [] v.t = "arr" ->
            <<"[">> \o Join([k \in 1..Len(v.kv) |-> PyRepr(v.kv[k])],
                            <<",", " ">>) \o <<"]">>
      [] v.t = "obj" ->
            <<"{">> \o Join([k \in 1..Len(v.kv) |->
                                ReprString(v.kv[k][1]) \o <<":", " ">>
                                    \o PyRepr(v.kv[k][2])],
                            <<",", " ">>) \o <<"}">>

\* str() of a parsed document, as an f-string formats it.
PyStr(v) == IF v.t = "str" THEN v.s ELSE PyRepr(v)

\* bool(v)
Truthy(v) ==
    CASE v.t = "null" -> FALSE
      [] v.t = "false" -> FALSE
      [] v.t = "true" -> TRUE
      [] v.t = "num" -> v.s # <<"0">>
      [] v.t = "str" -> v.s # <<>>
      [] OTHER -> v.kv # <<>>

\* The result of an access: ok is FALSE where Python raises.
Raises == [ok |-> FALSE, v |-> JNull]

Value(v) == [ok |-> TRUE, v |-> v]

\* key in d, and d[key], for a dict d.
HasKey(d, key) == \E k \in 1..Len(d.kv) : d.kv[k][1] = key

Lookup(d, key) == d.kv[CHOOSE k \in 1..Len(d.kv) : d.kv[k][1] = key][2]

\* Subscript that answers None where r[key] raises, as r.get(key) would.
SubscriptOrNone(r, key) ==
    IF r.ok /\ r.v.t = "obj" /\ HasKey(r.v, key) THEN Value(Lookup(r.v, key))
    ELSE Value(JNull)

\* r[key] for a str key: KeyError on a dict without the key, TypeError on
\* every other value.
Subscript(r, key) ==
    IF r.ok /\ r.v.t = "obj" /\ HasKey(r.v, key) THEN Value(Lookup(r.v, key))
    ELSE Raises

\* r.get(key): AttributeError on a value that is no dict.
DictGet(r, key) ==
    IF ~r.ok \/ r.v.t # "obj" THEN Raises
    ELSE IF HasKey(r.v, key) THEN Value(Lookup(r.v, key))
    ELSE Value(JNull)

\* r[0]: the first item of a list, the first character of a str; IndexError
\* when empty, KeyError on a dict (its keys are strs), TypeError otherwise.
First(r) ==
    IF r.ok /\ r.v.t = "arr" /\ r.v.kv # <<>> THEN Value(r.v.kv[1])
    ELSE IF r.ok /\ r.v.t = "str" /\ r.v.s # <<>> THEN Value(JStr(<<r.v.s[1]>>))
    ELSE Raises

\* len(v) is defined: TypeError on None, bool and int.
HasLen(v) == v.t \in {"str", "arr", "obj"}

(***************************************************************************)
(* State                                                                   *)
(***************************************************************************)
VARIABLES
    OPENROUTER_API_KEY, \* the module global read at import, "" when unset
    environ,            \* os.environ: REPLICATE_API_TOKEN and REPLICATE_API_KEY
    idea,               \* generate_scenes: the argument
    gs_pc,              \* generate_scenes: "idle", "loop", "returned", "raised"
    attempt,            \* generate_scenes: the loop variable
    request,            \* generate_scenes: the sanitized idea put in the prompt
    response,           \* generate_scenes: what the latest request was answered
    failures,           \* generate_scenes: the failure of each failed attempt
    log,                \* generate_scenes: the calls of requests.post and time.sleep
    video_schema,       \* generate_scenes: the value returned
    gs_error,           \* generate_scenes: the exception raised
    prompt,             \* generate_video: the argument
    gv_pc,              \* generate_video: "idle", "returned", "raised"
    video_prompt,       \* generate_video: the local of that name
    reduced,            \* generate_video: the branch that built video_prompt
    sent,               \* generate_video: the prompts given to replicate.run
    dirs,               \* the directories os.makedirs made
    files,              \* the paths opened for writing, in order
    video_path,         \* generate_video: the value returned
    gv_error,           \* generate_video: the exception raised
    san_text,           \* sanitize_prompt: the argument text
    san_escape,         \* sanitize_prompt: the argument escape_for_json
    san_results,        \* sanitize_prompt: the value returned by each call
    ideas,              \* __main__: the list of ideas
    main_i,             \* __main__: the ideas the loop is done with
    main_pc,            \* __main__: "for", "scenes", "video", "done"
    events,             \* __main__: generate, generate_video, except, sleep
    caught              \* __main__: the exception e of the except clause

scenes_vars ==
    <<idea, gs_pc, attempt, request, response, failures, log, video_schema,
      gs_error>>

video_vars ==
    <<prompt, gv_pc, video_prompt, reduced, sent, files, video_path, gv_error>>

sanitize_vars == <<san_text, san_escape, san_results>>

main_vars == <<ideas, main_i, main_pc, events, caught>>

vars ==
    <<OPENROUTER_API_KEY, environ, scenes_vars, video_vars, dirs,
      sanitize_vars, main_vars>>

\* No call of sanitize_prompt under way, and no run of __main__.
NoSanitize == san_text = <<>> /\ san_escape = FALSE /\ san_results = <<>>

NoMain ==
    /\ ideas = <<>>
    /\ main_i = 0
    /\ main_pc = "none"
    /\ events = <<>>
    /\ caught = [type |-> "none", msg |-> "none"]

\* No document, and no exception.
NoDoc == [t |-> "none", s |-> <<>>, kv |-> <<>>]

NoError == [type |-> "none", msg |-> "none"]

Error(type, msg) == [type |-> type, msg |-> msg]

\* What a request was answered: kind is "none", "429", "status", "timeout",
\* "request_error", "malformed" or "content"; content is the text of
\* result["choices"][0]["message"]["content"] for the kind "content".
NoResponse == [kind |-> "none", content |-> <<>>]

Response(kind, content) == [kind |-> kind, content |-> content]

(***************************************************************************)
(* generate_scenes                                                         *)
(***************************************************************************)
max_retries == 3

retry_delay == 2

Post(n) == [op |-> "post", arg |-> n]

Sleep(seconds) == [op |-> "sleep", arg |-> seconds]

\* KeyMissing with the test inverted.
KeyMissingInverted(key) == key # <<>>

\* not OPENROUTER_API_KEY
KeyMissing(key) == key = <<>>

\* InRange with the bound off by one.
InRangeInclusive(a) == a <= max_retries

\* for attempt in range(max_retries): the loop runs its body for this value.
InRange(a) == a < max_retries

\* MayRetry with the bound off by one: the last attempt retries too.
MayRetryOnLast(a) == a < max_retries

\* attempt < max_retries - 1: the guard of every retry but the one after 429.
MayRetry(a) == a < max_retries - 1

RateLimitDelayDoubling(a) == retry_delay * (2 ^ a)

\* retry_delay * (attempt + 1): the wait after a 429.
RateLimitDelay(a) == retry_delay * (a + 1)

\* not content or content.strip() in ["", "...", "…"]; a null content is
\* modelled by the empty text.
IsEmptyContent(content) ==
    \/ content = <<>>
    \/ Strip(content) \in {<<>>, <<".", ".", ".">>, <<ELLIPSIS>>}

\* The removal of the markdown fence: str.strip(chars) removes the characters
\* of chars, in any order, from both ends.
StripFence(content) ==
    IF StartsWith(content, <<BACKTICK, BACKTICK, BACKTICK, "j", "s", "o", "n">>)
    THEN StripChars(StripChars(content, {BACKTICK, "j", "s", "o", "n"}), {BACKTICK})
    ELSE IF StartsWith(content, <<BACKTICK, BACKTICK, BACKTICK>>)
         THEN StripChars(content, {BACKTICK})
         ELSE content

\* The content as it is given to json.loads.
CleanContent(content) ==
    sanitize_prompt(StripChars(Strip(StripFence(content)), {BACKTICK}), FALSE)

LooksCompleteAnyBracket(content) ==
    EndsWith(Strip(content), <<"}">>) \/ EndsWith(Strip(content), <<"]">>)

\* content.strip().endswith('}')
LooksComplete(content) == EndsWith(Strip(content), <<"}">>)

\* The branch a content takes and, on "ok", the document json.loads returns.
Outcome(kind, doc) == [kind |-> kind, doc |-> doc]

\* Lines 498-508 on the result r of json.loads.
ParsedOutcome(r) ==
    IF r.ok THEN Outcome("ok", r.v) ELSE Outcome("unparseable", NoDoc)

\* Lines 491-508 on the cleaned content.
CleanedOutcome(clean) ==
    IF ~LooksComplete(clean) THEN Outcome("truncated", NoDoc)
    ELSE ParsedOutcome(json_loads(clean))

\* The branch a string content takes: "empty", "truncated", "unparseable",
\* or "ok" when json.loads returns.
ContentOutcome(content) ==
    IF IsEmptyContent(content) THEN Outcome("empty", NoDoc)
    ELSE CleanedOutcome(CleanContent(content))

\* The message of the exception raised for a failure on the last attempt.
FailureMessage(kind) ==
    CASE kind = "status" -> "OpenRouter API error: {status_code} - {text}"
      [] kind = "empty" -> "Received empty response from OpenRouter"
      [] kind = "truncated" -> "Received truncated JSON response from OpenRouter"
      [] kind = "unparseable" -> "Failed to parse JSON response from OpenRouter: {e}"
      [] kind = "timeout" -> "Request to OpenRouter timed out"
      [] kind = "request_error" -> "Request to OpenRouter failed: {e}"

\* The end of the loop body after a continue: the next value of attempt, and
\* the raise after the loop once range(max_retries) is used up.
Continue(waited) ==
    /\ attempt' = attempt + 1
    /\ log' = log \o <<Post(attempt + 1)>> \o waited
    /\ IF InRange(attempt + 1)
       THEN gs_pc' = "loop" /\ gs_error' = gs_error
       ELSE /\ gs_pc' = "raised"
            /\ gs_error' = Error("Exception",
                                 "Failed to get valid response after 3 attempts")

RetryOrRaiseGrowing(kind) ==
    IF MayRetry(attempt)
    THEN Continue(<<Sleep(RateLimitDelay(attempt))>>)
    ELSE /\ attempt' = attempt
         /\ log' = Append(log, Post(attempt + 1))
         /\ gs_pc' = "raised"
         /\ gs_error' = Error("Exception", FailureMessage(kind))

\* if attempt < max_retries - 1: time.sleep(retry_delay); continue
\* raise Exception(...)
RetryOrRaise(kind) ==
    IF MayRetry(attempt)
    THEN Continue(<<Sleep(retry_delay)>>)
    ELSE /\ attempt' = attempt
         /\ log' = Append(log, Post(attempt + 1))
         /\ gs_pc' = "raised"
         /\ gs_error' = Error("Exception", FailureMessage(kind))

\* The call, up to the loop: os.makedirs, the credential check, the request.
GS_Call ==
    /\ gs_pc = "idle"
    /\ dirs' = dirs \cup {"output_dir"}
    /\ IF KeyMissing(OPENROUTER_API_KEY)
       THEN /\ gs_pc' = "raised"
            /\ gs_error' = Error("ValueError",
                    "Please set OPENROUTER_API_KEY environment variable")
            /\ request' = request
       ELSE /\ gs_pc' = "loop"
            /\ gs_error' = gs_error
            /\ request' = sanitize_prompt(idea, TRUE)
    /\ UNCHANGED <<OPENROUTER_API_KEY, environ, idea, attempt, response,
                   failures, log, video_schema, video_vars, sanitize_vars,
                   main_vars>>

\* One pass of the loop, answered with status 429.
GS_RateLimited ==
    /\ gs_pc = "loop"
    /\ response' = Response("429", <<>>)
    /\ failures' = Append(failures, "429")
    /\ Continue(<<Sleep(RateLimitDelay(attempt))>>)
    /\ UNCHANGED <<OPENROUTER_API_KEY, environ, idea, request, video_schema,
                   video_vars, dirs, sanitize_vars, main_vars>>

\* One pass of the loop, answered with a status other than 200 and 429.
GS_ApiError ==
    /\ gs_pc = "loop"
    /\ response' = Response("status", <<>>)
    /\ failures' = Append(failures, "status")
    /\ RetryOrRaise("status")
    /\ UNCHANGED <<OPENROUTER_API_KEY, environ, idea, request, video_schema,
                   video_vars, dirs, sanitize_vars, main_vars>>

\* One pass of the loop in which requests.post raises Timeout.
GS_Timeout ==
    /\ gs_pc = "loop"
    /\ response' = Response("timeout", <<>>)
    /\ failures' = Append(failures, "timeout")
    /\ RetryOrRaise("timeout")
    /\ UNCHANGED <<OPENROUTER_API_KEY, environ, idea, request, video_schema,
                   video_vars, dirs, sanitize_vars, main_vars>>

\* One pass of the loop in which requests.post raises another
\* RequestException (or response.json() does: its JSONDecodeError is a
\* RequestException from requests 2.27 on).
GS_RequestError ==
    /\ gs_pc = "loop"
    /\ response' = Response("request_error", <<>>)
    /\ failures' = Append(failures, "request_error")
    /\ RetryOrRaise("request_error")
    /\ UNCHANGED <<OPENROUTER_API_KEY, environ, idea, request, video_schema,
                   video_vars, dirs, sanitize_vars, main_vars>>

\* The exceptions of lines 467-471 that no except clause of the loop names:
\* a body without choices[0].message.content, a content that is no string,
\* and the ValueError of response.json() before requests 2.27.
BodyErrors == {"KeyError", "IndexError", "TypeError", "AttributeError", "ValueError"}

\* One pass of the loop, answered 200 with a body of another shape: the
\* exception leaves the function.
GS_MalformedBody ==
    /\ gs_pc = "loop"
    /\ \E e \in BodyErrors :
          gs_error' = Error(e, "result[\"choices\"][0][\"message\"][\"content\"]")
    /\ response' = Response("malformed", <<>>)
    /\ failures' = Append(failures, "malformed")
    /\ log' = Append(log, Post(attempt + 1))
    /\ gs_pc' = "raised"
    /\ UNCHANGED <<OPENROUTER_API_KEY, environ, idea, attempt, request,
                   video_schema, video_vars, dirs, sanitize_vars, main_vars>>

\* One pass of the loop, answered 200 with a content: the content is checked,
\* cleaned and parsed.
GS_Content(content) ==
    /\ gs_pc = "loop"
    /\ response' = Response("content", content)
    /\ \E outcome \in {ContentOutcome(content)} :
          IF outcome.kind = "ok"
          THEN /\ video_schema' = outcome.doc
               /\ gs_pc' = "returned"
               /\ log' = Append(log, Post(attempt + 1))
               /\ UNCHANGED <<attempt, failures, gs_error>>
          ELSE /\ failures' = Append(failures, outcome.kind)
               /\ RetryOrRaise(outcome.kind)
               /\ video_schema' = video_schema
    /\ UNCHANGED <<OPENROUTER_API_KEY, environ, idea, request, video_vars,
                   dirs, sanitize_vars, main_vars>>

(***************************************************************************)
(* generate_video                                                          *)
(***************************************************************************)
\* The keys of the script that generate_video reads, and the fixed texts of
\* its f-strings.
K_clips ==
    <<"c", "l", "i", "p", "s">>

K_cinematography ==
    <<"c", "i", "n", "e", "m", "a", "t", "o", "g", "r", "a", "p", "h", "y">>

K_tone ==
    <<"t", "o", "n", "e">>

K_subject ==
    <<"s", "u", "b", "j", "e", "c", "t">>

K_description ==
    <<"d", "e", "s", "c", "r", "i", "p", "t", "i", "o", "n">>

K_visual_details ==
    <<"v", "i", "s", "u", "a", "l", "_", "d", "e", "t", "a", "i", "l", "s">>

K_action ==
    <<"a", "c", "t", "i", "o", "n">>

K_scene ==
    <<"s", "c", "e", "n", "e">>

K_location ==
    <<"l", "o", "c", "a", "t", "i", "o", "n">>

K_shot ==
    <<"s", "h", "o", "t">>

K_composition ==
    <<"c", "o", "m", "p", "o", "s", "i", "t", "i", "o", "n">>

K_lighting ==
    <<"l", "i", "g", "h", "t", "i", "n", "g">>

K_color_grade ==
    <<"c", "o", "l", "o", "r", "_", "g", "r", "a", "d", "e">>

K_dialogue ==
    <<"d", "i", "a", "l", "o", "g", "u", "e">>

K_line ==
    <<"l", "i", "n", "e">>

T_scene ==
    <<" ", "s", "c", "e", "n", "e", ":", " ">>

T_period_space ==
    <<".", " ">>

T_location ==
    <<"L", "o", "c", "a", "t", "i", "o", "n", ":", " ">>

T_shot ==
    <<"S", "h", "o", "t", ":", " ">>

T_lighting ==
    <<"L", "i", "g", "h", "t", "i", "n", "g", ":", " ">>

T_color_grade ==
    <<"C", "o", "l", "o", "r", " ", "g", "r", "a", "d", "e", ":", " ">>

T_says ==
    <<" ", "C", "h", "a", "r", "a", "c", "t", "e", "r", " ", "s", "a", "y",
      "s", ":", " ", "'">>

\* prompt[:500], the cap on video_prompt, and the characters kept before "...".
FallbackLen == 500

MaxPromptLen == 400

KeptPromptLen == 397

\* CredentialMissing with the second not left out.
CredentialMissingOneNot(env) ==
    env.REPLICATE_API_TOKEN = <<>> /\ env.REPLICATE_API_KEY # <<>>

\* not os.getenv("REPLICATE_API_TOKEN") and not os.getenv("REPLICATE_API_KEY")
CredentialMissing(env) ==
    env.REPLICATE_API_TOKEN = <<>> /\ env.REPLICATE_API_KEY = <<>>

\* The f-strings of lines 546-555 on the first clip; ok is FALSE where one of
\* the accesses raises (KeyError, TypeError or AttributeError).  parts holds
\* each value read and the text that follows it.
ClipPrompt(clip) ==
    LET at(a, b) == Subscript(Subscript(clip, a), b)
        parts ==
            << <<at(K_cinematography, K_tone), T_scene>>,
               <<at(K_subject, K_description), T_period_space>>,
               <<at(K_visual_details, K_action), <<" ">> \o T_location>>,
               <<at(K_scene, K_location), T_period_space \o T_shot>>,
               <<at(K_shot, K_composition), T_period_space \o T_lighting>>,
               <<at(K_cinematography, K_lighting),
                 T_period_space \o T_color_grade>>,
               <<at(K_cinematography, K_color_grade), <<".">> >> >>
        said(text, line) ==
            IF line.ok
            THEN Value(JStr(text \o T_says \o PyStr(line.v) \o <<"'">>))
            ELSE Raises
        spoken(text, dialogue) ==
            IF ~dialogue.ok THEN Raises
            ELSE IF ~Truthy(dialogue.v) THEN Value(JStr(text))
            ELSE said(text, at(K_dialogue, K_line))
    IN  IF \E k \in 1..Len(parts) : ~parts[k][1].ok THEN Raises
        ELSE spoken(Flatten([k \in 1..Len(parts) |->
                                PyStr(parts[k][1].v) \o parts[k][2]]),
                    DictGet(clip, K_dialogue))

\* The value video_prompt gets and the branch that set it.
Reduced(branch, text) == [branch |-> branch, text |-> text]

\* json.loads(prompt) as the value of script_data, or the raise.
ScriptData(parsed) == IF parsed.ok THEN Value(parsed.v) ELSE Raises

\* Lines 543-555 on the prompt built of the first clip.
PromptOfBuilt(built, fallback) ==
    IF built.ok THEN Reduced("clip", built.v.s) ELSE Reduced("except", fallback)

\* Lines 542-562 on clips = script_data.get("clips"): fallback is the text
\* the else branch and the except clause assign.
PromptOfClips(clips, fallback) ==
    IF ~clips.ok THEN Reduced("except", fallback)
    ELSE IF ~Truthy(clips.v) THEN Reduced("else", fallback)
    ELSE IF ~HasLen(clips.v) THEN Reduced("except", fallback)
    ELSE PromptOfBuilt(ClipPrompt(First(clips)), fallback)

\* ReducePrompt whose fallbacks take the whole input, not its first 500
\* characters.
ReducePromptNoSlice(p) ==
    PromptOfClips(DictGet(ScriptData(json_loads(p)), K_clips), p)

\* The try statement of lines 538-562: the text of video_prompt and the
\* branch that set it: "clip", "else" (no clips) or "except".
ReducePrompt(p) ==
    PromptOfClips(DictGet(ScriptData(json_loads(p)), K_clips),
                  Prefix(p, FallbackLen))

\* CapPrompt that cuts at the limit before it appends the dots.
CapPromptAtLimit(p) ==
    IF Len(p) > MaxPromptLen THEN Prefix(p, MaxPromptLen) \o <<".", ".", ".">>
    ELSE p

\* if len(video_prompt) > 400: video_prompt = video_prompt[:397] + "..."
CapPrompt(p) ==
    IF Len(p) > MaxPromptLen THEN Prefix(p, KeptPromptLen) \o <<".", ".", ".">>
    ELSE p

\* os.path.join(output_dir, fname)
OutputPath == "output_dir/fname"

\* What the video service and the file system answer one call: the call
\* succeeds, or replicate.run, open or output.read raises.
VideoOutcomes == {"ok", "run_error", "open_error", "read_error"}

\* Run that calls the video service again when the call raised.
RunRetrying(calls, p, o) ==
    IF o = "run_error" THEN calls \o <<p, p>> ELSE Append(calls, p)

\* The calls of replicate.run after generate_video, answered o, called it
\* with the prompt p: lines 575-584 hold one call and no loop.
Run(calls, p, o) == Append(calls, p)

\* Written that opens the file before the video service is called.
WrittenOpenFirst(fs, o) ==
    IF o = "ok" THEN Append(fs, [path |-> OutputPath, data |-> "video"])
    ELSE IF o = "open_error" THEN fs
    ELSE Append(fs, [path |-> OutputPath, data |-> "empty"])

\* The files opened for writing after a call answered o: open(video_path,
\* "wb") creates or empties the file, file.write(output.read()) fills it.
Written(fs, o) ==
    CASE o = "ok" -> Append(fs, [path |-> OutputPath, data |-> "video"])
      [] o = "read_error" -> Append(fs, [path |-> OutputPath, data |-> "empty"])
      [] OTHER -> fs

\* One call of generate_video, answered with the outcome o.
generate_video(o) ==
    /\ gv_pc = "idle"
    /\ dirs' = dirs \cup {"output_dir"}
    /\ IF CredentialMissing(environ)
       THEN /\ gv_pc' = "raised"
            /\ gv_error' = Error("ValueError",
                "Please set REPLICATE_API_KEY or REPLICATE_API_TOKEN environment variable")
            /\ UNCHANGED <<video_prompt, reduced, sent, files, video_path>>
       ELSE /\ \E r \in {ReducePrompt(prompt)} :
                  /\ reduced' = r.branch
                  /\ video_prompt' = CapPrompt(sanitize_prompt(r.text, FALSE))
                  /\ sent' = Run(sent, video_prompt', o)
            /\ files' = Written(files, o)
            /\ IF o = "ok"
               THEN /\ gv_pc' = "returned"
                    /\ video_path' = OutputPath
                    /\ gv_error' = gv_error
               ELSE /\ gv_pc' = "raised"
                    /\ video_path' = video_path
                    /\ gv_error' = Error(o, "raise")
    /\ UNCHANGED <<OPENROUTER_API_KEY, environ, scenes_vars, prompt,
                   sanitize_vars, main_vars>>

(***************************************************************************)
(* Import: lines 17-24                                                     *)
(***************************************************************************)
\* The environment after the module is loaded: REPLICATE_API_KEY is copied
\* to REPLICATE_API_TOKEN when only the former is set.
ImportEnviron(token, key) ==
    [REPLICATE_API_TOKEN |-> IF key # <<>> /\ token = <<>> THEN key ELSE token,
     REPLICATE_API_KEY |-> key]

(***************************************************************************)
(* The inputs the model draws                                              *)
(***************************************************************************)
\* The texts over an alphabet of at most n characters.
TextsUpTo(alphabet, n) == UNION {[1..k -> alphabet] : k \in 0..n}

\* The values of a credential variable: unset, or set.
Credentials == {<<>>, <<"k">>}

Ideas == {<<"a">>, <<"x", "^", "2", " ", DQ, "y", DQ>>}

MaxContentLen == 3

ContentAlphabet == {"{", "}", "."}

\* {"a": 1}
ObjectContent == <<"{", DQ, "a", DQ, ":", " ", "1", "}">>

\* The object {"a": "'", "b": 1} as json.dumps(..., indent=8) writes it.
IndentedContent ==
    <<"{", LF, " ", " ", " ", " ", " ", " ", " ", " ", DQ, "a", DQ,
      ":", " ", DQ, "'", DQ, ",", LF, " ", " ", " ", " ", " ", " ", " ", " ",
      DQ, "b", DQ, ":", " ", "1", LF, "}">>

\* The object {} in a fence with the tag json.
FencedContent ==
    <<BACKTICK, BACKTICK, BACKTICK, "j", "s", "o", "n", LF, "{", "}", LF, BACKTICK, BACKTICK, BACKTICK>>

\* [{}]
ArrayContent == <<"[", "{", "}", "]">>

\* The JSON string "}" and the JSON number 1.
StringContent == <<DQ, "}", DQ>>

NumberContent == <<"1">>

\* A body in a markdown fence: white space, three backticks and a tag, the
\* body on its own lines, three backticks, white space.
Fence(lead, tag, body, trail) ==
    lead \o <<BACKTICK, BACKTICK, BACKTICK>> \o tag \o <<LF>> \o body
         \o <<LF, BACKTICK, BACKTICK, BACKTICK>> \o trail

FenceTags == {<<>>, <<"j", "s", "o", "n">>, <<"j", "s">>}

FenceMargins == {<<>>, <<LF>>}

\* The object {} in the fences a response may carry.
FencedObjects ==
    {Fence(lead, tag, <<"{", "}">>, trail) :
        lead \in FenceMargins, tag \in FenceTags, trail \in FenceMargins}

Contents ==
    TextsUpTo(ContentAlphabet, MaxContentLen)
        \cup {ObjectContent, IndentedContent, FencedContent, ArrayContent,
              <<ELLIPSIS>>, <<"{", DQ, "a", DQ, "}">>,
              StringContent, NumberContent}
        \cup FencedObjects

(***************************************************************************)
(* One call of generate_scenes                                             *)
(***************************************************************************)
InitScenes ==
    /\ OPENROUTER_API_KEY \in Credentials
    /\ environ = ImportEnviron(<<>>, <<>>)
    /\ idea \in Ideas
    /\ gs_pc = "idle"
    /\ attempt = 0
    /\ request = <<>>
    /\ response = NoResponse
    /\ failures = <<>>
    /\ log = <<>>
    /\ video_schema = NoDoc
    /\ gs_error = NoError
    /\ prompt = <<>>
    /\ gv_pc = "idle"
    /\ video_prompt = <<>>
    /\ reduced = "none"
    /\ sent = <<>>
    /\ dirs = {}
    /\ files = <<>>
    /\ video_path = "none"
    /\ gv_error = NoError
    /\ NoSanitize
    /\ NoMain

NextScenes ==
    \/ GS_Call
    \/ GS_RateLimited
    \/ GS_ApiError
    \/ GS_Timeout
    \/ GS_RequestError
    \/ GS_MalformedBody
    \/ \E content \in Contents : GS_Content(content)

SpecScenes == InitScenes /\ [][NextScenes]_vars

(***************************************************************************)
(* One call of generate_video                                              *)
(***************************************************************************)
\* The text of n characters c.
Rep(c, n) == [k \in 1..n |-> c]

\* A clip with every field generate_video reads, without and with a
\* dialogue.
ClipDoc(description, dialogue) ==
    JObj(<< <<K_cinematography,
              JObj(<< <<K_tone, JStr(<<"d", "a", "r", "k">>)>>,
                      <<K_lighting, JStr(<<"d", "i", "m">>)>>,
                      <<K_color_grade, JStr(<<"t", "e", "a", "l">>)>> >>)>>,
            <<K_subject, JObj(<< <<K_description, JStr(description)>> >>)>>,
            <<K_visual_details,
              JObj(<< <<K_action, JStr(<<"r", "u", "n", "s">>)>> >>)>>,
            <<K_scene,
              JObj(<< <<K_location, JStr(<<"s", "t", "r", "e", "e", "t">>)>> >>)>>,
            <<K_shot,
              JObj(<< <<K_composition, JStr(<<"w", "i", "d", "e">>)>> >>)>>,
            <<K_dialogue, dialogue>> >>)

HelloDialogue == JObj(<< <<K_line, JStr(<<"H", "e", "l", "l", "o">>)>> >>)

\* d without the key.
Without(d, key) == JObj(SelectSeq(d.kv, LAMBDA pair : pair[1] # key))

ScriptOf(clips) == JObj(<< <<K_clips, clips>> >>)

\* Scripts whose first clip is complete.
CompleteScripts ==
    {ScriptOf(JArr(<<ClipDoc(<<"A">>, HelloDialogue)>>)),
     ScriptOf(JArr(<<ClipDoc(<<"A">>, JNull)>>)),
     ScriptOf(JArr(<<Without(ClipDoc(<<"A", "^", "2">>, JNull), K_dialogue),
                     JObj(<<>>)>>)),
     ScriptOf(JArr(<<ClipDoc(Rep("^", 24), HelloDialogue)>>))}

\* Scripts whose first clip lacks a field that generate_video reads.
IncompleteScripts ==
    {ScriptOf(JArr(<<Without(ClipDoc(<<"A">>, HelloDialogue), K_cinematography)>>)),
     ScriptOf(JArr(<<ClipDoc(<<"A">>, JObj(<< <<<<"s">>, JTrue>> >>))>>)),
     ScriptOf(JArr(<<ClipDoc(<<"A">>, JStr(<<"h", "i">>))>>)),
     ScriptOf(JArr(<<JObj(<<>>)>>)),
     ScriptOf(JArr(<<JNull, ClipDoc(<<"A">>, HelloDialogue)>>))}

\* Documents without a non-empty list of clips.
ClipLessDocs ==
    {JObj(<<>>), ScriptOf(JArr(<<>>)), ScriptOf(JNull), ScriptOf(JNum(<<"5">>)),
     ScriptOf(JStr(<<"a", "b">>)), ScriptOf(JObj(<< <<<<"a">>, JNull>> >>)),
     JArr(<<ClipDoc(<<"A">>, JNull)>>), JStr(<<"c", "l", "i", "p", "s">>),
     JNum(<<"7">>), JNull}

MaxPromptTextLen == 2

PromptAlphabet == {"{", "}", "x", " "}

\* Texts around the two length limits: too long before and after the
\* sanitizer, shortened or lengthened by it.
LongPrompts ==
    {Rep("x", n) : n \in {KeptPromptLen, MaxPromptLen, MaxPromptLen + 1,
                          FallbackLen, FallbackLen + 100}}
        \cup {<<"a">> \o Rep(" ", MaxPromptLen + 50) \o Rep("b", 149),
              Rep("x", MaxPromptLen) \o Rep(" ", FallbackLen),
              Rep("^", 30),
              Rep("x", FallbackLen - 1) \o <<"^", "x">>,
              <<"{">> \o Rep(" ", FallbackLen + 100) \o <<"}">>}

Prompts ==
    TextsUpTo(PromptAlphabet, MaxPromptTextLen)
        \cup LongPrompts
        \cup {json_dumps(d) : d \in CompleteScripts \cup IncompleteScripts
                                        \cup ClipLessDocs}

InitVideo ==
    /\ OPENROUTER_API_KEY = <<>>
    /\ \E token \in Credentials, key \in Credentials :
          environ = ImportEnviron(token, key)
    /\ idea = <<>>
    /\ gs_pc = "idle"
    /\ attempt = 0
    /\ request = <<>>
    /\ response = NoResponse
    /\ failures = <<>>
    /\ log = <<>>
    /\ video_schema = NoDoc
    /\ gs_error = NoError
    /\ prompt \in Prompts
    /\ gv_pc = "idle"
    /\ video_prompt = <<>>
    /\ reduced = "none"
    /\ sent = <<>>
    /\ dirs = {}
    /\ files = <<>>
    /\ video_path = "none"
    /\ gv_error = NoError
    /\ NoSanitize
    /\ NoMain

NextVideo == \E o \in VideoOutcomes : generate_video(o)

SpecVideo == InitVideo /\ [][NextVideo]_vars

(***************************************************************************)
(* Calls of sanitize_prompt, each on the value the call before returned    *)
(***************************************************************************)
MaxTextLen == 3

MaxSanitizeCalls == 2

TextAlphabet == {"a", " ", SOH, DQ, BS}

\* The second key of the substitution table, as a text.
GarbledKeyText == replacements[2][1]

\* Texts with the characters the table, the whitespace rule and the control
\* rule are about.
SampleTexts ==
    {<<"a", " ", SOH, " ", "b">>,
     <<" ", TAB, "a", DEL, NEL, "b", LF, NBSP>>,
     <<CR, "x", "^", "2", NUL, ELLIPSIS, FS>>,
     <<"~", "1", "0", "^", "2", "6", " ", "^">>,
     <<LDQUO, "a", RDQUO, ENDASH, EMDASH, APPROX, PLUSMINUS, INFINITY>>,
     <<"a", BS, DQ, "b", DQ, BS, BS>>,
     <<"{", DQ, "a", DQ>> \o GarbledKeyText \o <<DQ, "b", DQ, ":", "1", "}">>}

Texts == TextsUpTo(TextAlphabet, MaxTextLen) \cup SampleTexts

\* The text the next call of sanitize_prompt is given.
SanitizeArgument ==
    IF san_results = <<>> THEN san_text ELSE san_results[Len(san_results)]

\* One call of sanitize_prompt.
Sanitize ==
    /\ Len(san_results) < MaxSanitizeCalls
    /\ san_results' =
          Append(san_results, sanitize_prompt(SanitizeArgument, san_escape))
    /\ UNCHANGED <<OPENROUTER_API_KEY, environ, scenes_vars, video_vars, dirs,
                   san_text, san_escape, main_vars>>

InitSanitize ==
    /\ OPENROUTER_API_KEY = <<>>
    /\ environ = ImportEnviron(<<>>, <<>>)
    /\ idea = <<>>
    /\ gs_pc = "idle"
    /\ attempt = 0
    /\ request = <<>>
    /\ response = NoResponse
    /\ failures = <<>>
    /\ log = <<>>
    /\ video_schema = NoDoc
    /\ gs_error = NoError
    /\ prompt = <<>>
    /\ gv_pc = "idle"
    /\ video_prompt = <<>>
    /\ reduced = "none"
    /\ sent = <<>>
    /\ dirs = {}
    /\ files = <<>>
    /\ video_path = "none"
    /\ gv_error = NoError
    /\ san_text \in Texts
    /\ san_escape \in BOOLEAN
    /\ san_results = <<>>
    /\ NoMain

NextSanitize == Sanitize

SpecSanitize == InitSanitize /\ [][NextSanitize]_vars

(***************************************************************************)
(* generate and __main__: lines 601-648                                    *)
(***************************************************************************)
\* time.sleep(5) between two ideas.
InterIdeaDelay == 5

\* What __main__ does, in order: the call of generate for the idea arg, the
\* call of generate_video inside it, the except clause entered for the idea
\* arg, and time.sleep(arg).
Event(op, arg) == [op |-> op, arg |-> arg]

\* The for statement after done ideas: the next idea, or the end.
ForNext(done) == IF done < Len(ideas) THEN "for" ELSE "done"

\* The except clause as a break: the loop ends with the failed idea.
AfterExceptBreak(done) == "done"

\* The except clause of lines 646-648 prints, and the loop goes on.
AfterExcept(done) == ForNext(done)

\* generate with a clause that swallows what generate_scenes raises.
GenerateReturnsSwallowing == gv_pc = "returned" \/ gs_pc = "raised"

\* generate returns when generate_video returned: lines 609-618 hold no try
\* statement, so an exception of either stage leaves generate.
GenerateReturns == gv_pc = "returned"

GenerateRaises == ~GenerateReturns /\ (gs_pc = "raised" \/ gv_pc = "raised")

\* The for statement takes the next idea and calls generate, which makes the
\* directory and calls generate_scenes: the locals of both stages are new,
\* and the name e of an earlier except clause is unbound.
Main_For ==
    /\ main_pc = "for"
    /\ main_i < Len(ideas)
    /\ main_pc' = "scenes"
    /\ events' = Append(events, Event("generate", main_i + 1))
    /\ caught' = NoError
    /\ dirs' = dirs \cup {"output_dir"}
    /\ idea' = ideas[main_i + 1]
    /\ gs_pc' = "idle"
    /\ attempt' = 0
    /\ request' = <<>>
    /\ response' = NoResponse
    /\ failures' = <<>>
    /\ log' = <<>>
    /\ video_schema' = NoDoc
    /\ gs_error' = NoError
    /\ prompt' = <<>>
    /\ gv_pc' = "unused"
    /\ video_prompt' = <<>>
    /\ reduced' = "none"
    /\ sent' = <<>>
    /\ files' = <<>>
    /\ video_path' = "none"
    /\ gv_error' = NoError
    /\ UNCHANGED <<OPENROUTER_API_KEY, environ, sanitize_vars, ideas, main_i>>

\* generate, after generate_scenes returned: generate_video is called with
\* json.dumps(script).
Generate_Video ==
    /\ main_pc = "scenes"
    /\ gs_pc = "returned"
    /\ main_pc' = "video"
    /\ events' = Append(events, Event("generate_video", main_i + 1))
    /\ prompt' = json_dumps(video_schema)
    /\ gv_pc' = "idle"
    /\ UNCHANGED <<OPENROUTER_API_KEY, environ, scenes_vars, video_prompt,
                   reduced, sent, files, video_path, gv_error, dirs,
                   sanitize_vars, ideas, main_i, caught>>

\* A stage raised: the exception leaves generate and the except clause of
\* the loop catches it; the loop goes on with no sleep.
Main_Except ==
    /\ main_pc \in {"scenes", "video"}
    /\ GenerateRaises
    /\ events' = Append(events, Event("except", main_i + 1))
    /\ caught' = IF gs_pc = "raised" THEN gs_error ELSE gv_error
    /\ main_i' = main_i + 1
    /\ main_pc' = AfterExcept(main_i + 1)
    /\ UNCHANGED <<OPENROUTER_API_KEY, environ, scenes_vars, video_vars, dirs,
                   sanitize_vars, ideas>>

\* generate returned: time.sleep(5) unless the idea was the last.
Main_Return ==
    /\ main_pc \in {"scenes", "video"}
    /\ GenerateReturns
    /\ events' = IF main_i < Len(ideas) - 1
                 THEN Append(events, Event("sleep", InterIdeaDelay))
                 ELSE events
    /\ main_i' = main_i + 1
    /\ main_pc' = ForNext(main_i + 1)
    /\ UNCHANGED <<OPENROUTER_API_KEY, environ, scenes_vars, video_vars, dirs,
                   sanitize_vars, ideas, caught>>

MaxIdeas == 2

\* The idea at position k of the lists the model draws.
IdeaText(k) == <<"x", "^">> \o Rep("a", k)

\* The contents a request is answered with: an object, a truncated one, and
\* a script with a complete first clip.
MainContents ==
    {ObjectContent, <<"{">>,
     json_dumps(ScriptOf(JArr(<<ClipDoc(<<"A">>, HelloDialogue)>>)))}

\* The start of __main__.  The list of lines 622-628 is written without
\* commas between its texts, which makes it a list of one idea; the loop is
\* modelled on lists of one idea and more.
Init ==
    /\ OPENROUTER_API_KEY \in Credentials
    /\ \E token \in Credentials : environ = ImportEnviron(token, <<>>)
    /\ idea = <<>>
    /\ gs_pc = "unused"
    /\ attempt = 0
    /\ request = <<>>
    /\ response = NoResponse
    /\ failures = <<>>
    /\ log = <<>>
    /\ video_schema = NoDoc
    /\ gs_error = NoError
    /\ prompt = <<>>
    /\ gv_pc = "unused"
    /\ video_prompt = <<>>
    /\ reduced = "none"
    /\ sent = <<>>
    /\ dirs = {}
    /\ files = <<>>
    /\ video_path = "none"
    /\ gv_error = NoError
    /\ NoSanitize
    /\ \E n \in 1..MaxIdeas : ideas = [k \in 1..n |-> IdeaText(k)]
    /\ main_i = 0
    /\ main_pc = "for"
    /\ events = <<>>
    /\ caught = NoError

Next ==
    \/ Main_For
    \/ GS_Call
    \/ GS_RateLimited
    \/ GS_ApiError
    \/ GS_Timeout
    \/ GS_RequestError
    \/ GS_MalformedBody
    \/ \E content \in MainContents : GS_Content(content)
    \/ Generate_Video
    \/ \E o \in VideoOutcomes : generate_video(o)
    \/ Main_Except
    \/ Main_Return

Spec == Init /\ [][Next]_vars

(***************************************************************************)
(* Properties of generate_scenes, checked under SpecScenes                 *)
(***************************************************************************)
\* The number of requests sent, and the waits in order.
PostCount == Cardinality({k \in 1..Len(log) : log[k].op = "post"})

Waits ==
    LET sleeps == SelectSeq(log, LAMBDA e : e.op = "sleep")
    IN  [k \in 1..Len(sleeps) |-> sleeps[k].arg]

\* The failure of the latest failed attempt.
LastFailure == failures[Len(failures)]

\* The failure an exception message names; "none" for a message that names
\* no failure.
CauseNamed(msg) ==
    CASE msg = "OpenRouter API error: {status_code} - {text}" -> "status"
      [] msg = "Received empty response from OpenRouter" -> "empty"
      [] msg = "Received truncated JSON response from OpenRouter" -> "truncated"
      [] msg = "Failed to parse JSON response from OpenRouter: {e}" -> "unparseable"
      [] msg = "Request to OpenRouter timed out" -> "timeout"
      [] msg = "Request to OpenRouter failed: {e}" -> "request_error"
      [] OTHER -> "none"

\* C1: one call of generate_scenes sends at most 3 requests, whatever the
\* service answers: while the loop runs, the requests sent are as many as
\* the attempt counter, which is below 3.
C1_AtMostThreeRequests ==
    /\ PostCount <= 3
    /\ gs_pc = "loop" => PostCount = attempt /\ attempt < 3

C1_Witness ==
    /\ gs_pc = "raised"
    /\ PostCount = 3
    /\ failures = <<"429", "status", "unparseable">>

\* C2: when generate_scenes has used up its 3 attempts, the error it raises
\* names the failure of the last attempt, whether that was a rate limit, a
\* non-200 status, a timeout, or an empty, truncated or unparseable content.
C2_ErrorNamesLastCause ==
    (/\ gs_pc = "raised"
     /\ PostCount = 3
     /\ Len(failures) = 3
     /\ LastFailure \in {"429", "status", "timeout", "empty", "truncated",
                         "unparseable"})
        => CauseNamed(gs_error.msg) = LastFailure

\* C3: with the credential configured, generate_scenes raises only once 3
\* requests have been sent: a failure of attempt 1 or 2, a malformed 200 body
\* included, is followed by another request.
C3_RaisesOnlyAtCeiling ==
    (OPENROUTER_API_KEY # <<>> /\ gs_pc = "raised") => PostCount = 3

\* A content that is a JSON object by itself and ends with '}'.
ValidObject(content) ==
    /\ json_loads(content).ok
    /\ json_loads(content).v.t = "obj"
    /\ content[Len(content)] = "}"

\* C4: after 429 on attempts 1 and 2, a 200 with a valid JSON object ending
\* in '}' makes the third attempt return the document, after the waits 2 and
\* 4, one after each 429, and with no wait or request after it.
C4_ReturnsAfterTwoRateLimits ==
    (/\ attempt = 2
     /\ SubSeq(failures, 1, 2) = <<"429", "429">>
     /\ response.kind = "content"
     /\ ValidObject(response.content))
        => /\ gs_pc = "returned"
           /\ video_schema # NoDoc
           /\ log = <<Post(1), Sleep(2), Post(2), Sleep(4), Post(3)>>

\* C5: three timeouts in a row end in a raise after exactly 3 requests, and
\* nothing is sent or waited for after the third.
C5_ThreeTimeoutsRaise ==
    failures = <<"timeout", "timeout", "timeout">>
        => /\ gs_pc = "raised"
           /\ gs_error = Error("Exception", "Request to OpenRouter timed out")
           /\ log = <<Post(1), Sleep(2), Post(2), Sleep(2), Post(3)>>

C5_Witness ==
    gs_pc = "raised" /\ failures = <<"timeout", "timeout", "timeout">>

\* C6: without the completion-service credential, a call of generate_scenes
\* raises the configuration error, for every idea, and has sent no request
\* and waited for nothing.
C6_NoKeyNoRequest ==
    (OPENROUTER_API_KEY = <<>> /\ gs_pc # "idle")
        => /\ gs_pc = "raised"
           /\ gs_error.type = "ValueError"
           /\ log = <<>>
           /\ request = <<>>

C6_Witness ==
    /\ OPENROUTER_API_KEY = <<>>
    /\ gs_pc = "raised"
    /\ idea = <<"x", "^", "2", " ", DQ, "y", DQ>>

(***************************************************************************)
(* Properties of generate_video, checked under SpecVideo                   *)
(***************************************************************************)
\* The call went past the credential check.
VideoStarted ==
    gv_pc # "idle" /\ ~(environ.REPLICATE_API_TOKEN = <<>>
                            /\ environ.REPLICATE_API_KEY = <<>>)

\* The first n characters of a text.
FirstChars(p, n) == [k \in 1..(IF Len(p) < n THEN Len(p) ELSE n) |-> p[k]]

\* The prompt the fallback sends: the first 500 characters of the input,
\* sanitized without escaping, cut to 397 characters and "..." when longer
\* than 400.
FallbackPrompt(p) ==
    LET clean == sanitize_prompt(FirstChars(p, 500), FALSE)
    IN  IF Len(clean) > 400 THEN FirstChars(clean, 397) \o <<".", ".", ".">>
        ELSE clean

\* C7: with neither credential variable of the video service set, a call of
\* generate_video raises the configuration error, and neither the video
\* service was called nor a file written.
C7_NoCredentialNoCall ==
    (/\ environ.REPLICATE_API_TOKEN = <<>>
     /\ environ.REPLICATE_API_KEY = <<>>
     /\ gv_pc # "idle")
        => /\ gv_pc = "raised"
           /\ gv_error.type = "ValueError"
           /\ sent = <<>>
           /\ files = <<>>

C7_Witness ==
    /\ environ.REPLICATE_API_TOKEN = <<>>
    /\ environ.REPLICATE_API_KEY = <<>>
    /\ gv_pc = "raised"
    /\ json_loads(prompt).ok

\* C8: every prompt sent to the video service has at most 400 characters, on
\* the first-clip path and on the fallback path: a sanitized prompt longer
\* than 400 is sent as its first 397 characters and "...", any other
\* unchanged.
C8_PromptCapped ==
    /\ \A k \in 1..Len(sent) : Len(sent[k]) <= 400
    /\ VideoStarted =>
          LET clean == sanitize_prompt(ReducePrompt(prompt).text, FALSE)
          IN  /\ Len(clean) > 400 =>
                    /\ sent = <<FirstChars(clean, 397) \o <<".", ".", ".">> >>
                    /\ Len(sent[1]) = 400
              /\ Len(clean) <= 400 => sent = <<clean>>

C8_Witness ==
    /\ reduced = "clip"
    /\ Len(sent) = 1
    /\ Len(sent[1]) = 400
    /\ SubSeq(sent[1], 398, 400) = <<".", ".", ".">>
    /\ Len(sanitize_prompt(ReducePrompt(prompt).text, FALSE)) > 400

\* The document has a non-empty list under "clips".
HasClipList(v) ==
    /\ v.t = "obj"
    /\ HasKey(v, K_clips)
    /\ Lookup(v, K_clips).t = "arr"
    /\ Lookup(v, K_clips).kv # <<>>

\* C9: an input that is no JSON, or a document without a non-empty clips
\* list, is reduced to its first 500 characters, sanitized without escaping
\* and capped at 400 characters; the reduction raises nothing, so the video
\* service is called with that prompt.
C9_FallbackPrompt ==
    (/\ VideoStarted
     /\ ~json_loads(prompt).ok \/ ~HasClipList(json_loads(prompt).v))
        => /\ reduced \in {"else", "except"}
           /\ sent = <<FallbackPrompt(prompt)>>
           /\ gv_error.type \in {"none", "run_error", "open_error", "read_error"}

C9_Witness ==
    /\ gv_pc = "returned"
    /\ Len(prompt) = 600
    /\ ~json_loads(prompt).ok
    /\ reduced = "except"
    /\ Len(sent[1]) < 400

\* The value under the keys a and b of a clip is there to be read.
HasPath(clip, a, b) ==
    /\ clip.t = "obj"
    /\ HasKey(clip, a)
    /\ Lookup(clip, a).t = "obj"
    /\ HasKey(Lookup(clip, a), b)

\* The first clip of the script lacks a field generate_video reads: one of
\* the seven it always reads, or the line of a dialogue.
FirstClipIncomplete(p) ==
    /\ json_loads(p).ok
    /\ HasClipList(json_loads(p).v)
    /\ LET clip == Lookup(json_loads(p).v, K_clips).kv[1]
       IN  \/ ~HasPath(clip, K_cinematography, K_tone)
           \/ ~HasPath(clip, K_subject, K_description)
           \/ ~HasPath(clip, K_visual_details, K_action)
           \/ ~HasPath(clip, K_scene, K_location)
           \/ ~HasPath(clip, K_shot, K_composition)
           \/ ~HasPath(clip, K_cinematography, K_lighting)
           \/ ~HasPath(clip, K_cinematography, K_color_grade)
           \/ /\ HasKey(clip, K_dialogue)
              /\ Truthy(Lookup(clip, K_dialogue))
              /\ ~HasPath(clip, K_dialogue, K_line)

\* C10, as claimed: a first clip that lacks a required field is a hard
\* error: generate_video raises, builds no fallback prompt and does not call
\* the video service.
C10_Original_HardError ==
    (VideoStarted /\ FirstClipIncomplete(prompt))
        => gv_pc = "raised" /\ sent = <<>>

\* C10, amended: a first clip that lacks a required field raises inside the
\* try statement, the except clause catches it, and the fallback prompt (the
\* first 500 characters of the input, sanitized and capped) is sent to the
\* video service.
C10_IncompleteClipFallsBack ==
    (VideoStarted /\ FirstClipIncomplete(prompt))
        => /\ reduced = "except"
           /\ sent = <<FallbackPrompt(prompt)>>
           /\ gv_error.type \in {"none", "run_error", "open_error", "read_error"}

C10_Witness ==
    /\ gv_pc = "returned"
    /\ FirstClipIncomplete(prompt)
    /\ ~HasKey(Lookup(json_loads(prompt).v, K_clips).kv[1], K_cinematography)
    /\ reduced = "except"
    /\ sent = <<FallbackPrompt(prompt)>>

\* The text without its spaces: two texts that differ in spacing only agree
\* on it.
NoSpaces(s) == SelectSeq(s, LAMBDA c : c # " ")

\* The text under the keys a and b of a clip.
Field(clip, a, b) == Lookup(Lookup(clip, a), b).s

HasText(clip, a, b) == HasPath(clip, a, b) /\ Lookup(Lookup(clip, a), b).t = "str"

\* The clip has a dialogue to say.
HasDialogue(clip) == HasKey(clip, K_dialogue) /\ Truthy(Lookup(clip, K_dialogue))

\* The first clip of the script p.
FirstClip(p) == Lookup(json_loads(p).v, K_clips).kv[1]

\* The first clip of the script has every field as a text, and a line in its
\* dialogue when it has one.
FirstClipComplete(p) ==
    /\ json_loads(p).ok
    /\ HasClipList(json_loads(p).v)
    /\ \E clip \in {FirstClip(p)} :
          /\ HasText(clip, K_cinematography, K_tone)
          /\ HasText(clip, K_subject, K_description)
          /\ HasText(clip, K_visual_details, K_action)
          /\ HasText(clip, K_scene, K_location)
          /\ HasText(clip, K_shot, K_composition)
          /\ HasText(clip, K_cinematography, K_lighting)
          /\ HasText(clip, K_cinematography, K_color_grade)
          /\ HasDialogue(clip) => HasText(clip, K_dialogue, K_line)

\* The prompt as the claim assembles it: a period after every field, the
\* action included.
ClaimedPrompt(clip) ==
    Field(clip, K_cinematography, K_tone) \o T_scene
        \o Field(clip, K_subject, K_description) \o <<".">>
        \o Field(clip, K_visual_details, K_action) \o <<".">>
        \o T_location \o Field(clip, K_scene, K_location) \o <<".">>
        \o T_shot \o Field(clip, K_shot, K_composition) \o <<".">>
        \o T_lighting \o Field(clip, K_cinematography, K_lighting) \o <<".">>
        \o T_color_grade \o Field(clip, K_cinematography, K_color_grade) \o <<".">>
        \o IF HasDialogue(clip)
           THEN T_says \o Field(clip, K_dialogue, K_line) \o <<"'">>
           ELSE <<>>

\* C11: for a script whose first clip has every field, the prompt built
\* before sanitizing and capping is, spacing apart, the tone and " scene: ",
\* the description, a period, the action, a period, the location, the shot,
\* the lighting and the color grade, each after its label and before a
\* period, and the line of the dialogue when the clip has one.
C11_PromptInClaimedOrder ==
    (VideoStarted /\ FirstClipComplete(prompt))
        => /\ reduced = "clip"
           /\ NoSpaces(ReducePrompt(prompt).text)
                = NoSpaces(ClaimedPrompt(FirstClip(prompt)))

\* C15: one call of generate_video calls the video service at most once:
\* when that call, the opening of the file or the download raises, the error
\* reaches the caller after the one call, with no wait and no path returned.
C15_OneVideoCall ==
    /\ Len(sent) <= 1
    /\ (gv_pc = "raised"
            /\ gv_error.type \in {"run_error", "open_error", "read_error"})
          => /\ Len(sent) = 1
             /\ \A k \in 1..Len(log) : log[k].op # "sleep"
             /\ video_path = "none"

C15_Witness ==
    /\ gv_pc = "raised"
    /\ gv_error.type = "run_error"
    /\ sent = <<video_prompt>>
    /\ reduced = "clip"

(***************************************************************************)
(* Properties of sanitize_prompt, checked under SpecSanitize               *)
(***************************************************************************)
\* The occurrences of the character c in the text s.
Count(c, s) == Cardinality({k \in 1..Len(s) : s[k] = c})

\* C12: sanitize_prompt is idempotent for both values of escape_for_json: a
\* second call on the value the first returned returns that value.
C12_Idempotent ==
    Len(san_results) >= 2 => san_results[2] = san_results[1]

\* C13: whatever the text and escape_for_json, the value sanitize_prompt
\* returns holds no C0 or C1 control character and neither starts nor ends
\* with whitespace, and the empty text is returned as it is.
C13_NoControlNoMargin ==
    /\ \A k \in 1..Len(san_results) :
          /\ \A j \in 1..Len(san_results[k]) :
                san_results[k][j] \notin
                    {NUL, SOH, BSP, TAB, LF, FF, CR, FS, DEL, NEL}
          /\ san_results[k] # <<>> =>
                /\ san_results[k][1] \notin PyWhitespace
                /\ san_results[k][Len(san_results[k])] \notin PyWhitespace
    /\ (san_text = <<>> /\ san_results # <<>>) => san_results[1] = <<>>

C13_Witness ==
    /\ san_text = <<" ", TAB, "a", DEL, NEL, "b", LF, NBSP>>
    /\ Len(san_results) >= 1
    /\ san_results[1] = <<"a", " ", "b">>

\* The backslashes right before position j of the text s.
BackslashRun(s, j) ==
    Cardinality({n \in 1..(j - 1) : \A k \in (j - n)..(j - 1) : s[k] = BS})

\* C14: with escape_for_json, every backslash of the text comes out as two
\* and every double quote as a backslash and the quote, so that each quote
\* of the result follows an odd number of backslashes; without it, no
\* backslash and no quote is added.
C14_EscapesOnce ==
    Len(san_results) >= 1 =>
        IF san_escape
        THEN /\ Count(DQ, san_results[1]) = Count(DQ, san_text)
             /\ Count(BS, san_results[1])
                  = 2 * Count(BS, san_text) + Count(DQ, san_text)
             /\ \A j \in 1..Len(san_results[1]) :
                   san_results[1][j] = DQ
                       => BackslashRun(san_results[1], j) % 2 = 1
        ELSE /\ Count(DQ, san_results[1]) <= Count(DQ, san_text)
             /\ Count(BS, san_results[1]) <= Count(BS, san_text)

(***************************************************************************)
(* Properties of generate and __main__, checked under Spec                 *)
(***************************************************************************)
\* The ideas generate was called for, in the order of the calls.
Processed ==
    LET calls == SelectSeq(events, LAMBDA e : e.op = "generate")
    IN  [k \in 1..Len(calls) |-> calls[k].arg]

\* The loop is inside a call of generate.
InGenerate == main_pc \in {"scenes", "video"}

\* C16: in generate, generate_video is reached only after generate_scenes
\* returned a document for the same idea, and it is given that document;
\* when generate_scenes raises, the video service is not called, no file is
\* opened, and the exception that leaves generate is the one raised; so is
\* an exception of generate_video.
C16_VideoAfterScript ==
    /\ gv_pc # "unused" =>
          /\ gs_pc = "returned"
          /\ video_schema # NoDoc
          /\ prompt = json_dumps(video_schema)
          /\ idea = ideas[IF InGenerate THEN main_i + 1 ELSE main_i]
    /\ gs_pc = "raised" => gv_pc = "unused" /\ sent = <<>> /\ files = <<>>
    /\ (gs_pc = "raised" /\ ~InGenerate) =>
          caught = gs_error /\ events[Len(events)] = Event("except", main_i)
    /\ (gv_pc = "raised" /\ ~InGenerate) =>
          caught = gv_error /\ events[Len(events)] = Event("except", main_i)

C16_Witness ==
    /\ main_pc = "done"
    /\ gs_pc = "raised"
    /\ caught = Error("Exception", "Failed to get valid response after 3 attempts")
    /\ events = <<Event("generate", 1), Event("generate_video", 1),
                  Event("sleep", 5), Event("generate", 2), Event("except", 2)>>

\* C17: the loop calls generate for every idea of the list once, in the
\* order of the list and one at a time: a failed idea is not taken again,
\* and the loop ends only after the last idea.
C17_EachIdeaOnce ==
    /\ Processed = [k \in 1..Len(Processed) |-> k]
    /\ Len(Processed) = IF InGenerate THEN main_i + 1 ELSE main_i
    /\ InGenerate => idea = ideas[main_i + 1]
    /\ main_pc = "for" => main_i < Len(ideas)
    /\ main_pc = "done" => Len(Processed) = Len(ideas)

C17_Witness ==
    /\ main_pc = "done"
    /\ gv_pc = "returned"
    /\ events = <<Event("generate", 1), Event("except", 1),
                  Event("generate", 2), Event("generate_video", 2)>>

\* C18: before every idea but the first the loop waits 5 seconds, whether
\* the idea before succeeded or failed, and it does not wait after the last.
C18_DelayBetweenIdeas ==
    /\ \A k \in 2..Len(events) :
          events[k].op = "generate" => events[k - 1] = Event("sleep", 5)
    /\ (main_pc = "done" /\ events # <<>>) => events[Len(events)].op # "sleep"

(***************************************************************************)
(* Properties of the handling of a content, checked under SpecScenes       *)
(***************************************************************************)
\* The content of the latest response, as it is given to json.loads.
LatestCleaned == CleanContent(response.content)

\* The latest response is a content that is JSON text of a value that is
\* no object.
LatestIsOtherJson ==
    /\ response.kind = "content"
    /\ json_loads(response.content).ok
    /\ json_loads(response.content).v.t # "obj"

\* C19: what generate_scenes returns is an object: it is what json.loads
\* gives for the cleaned content of the latest 200 response, and that content
\* ends with "}"; nothing but the parsing decides, so every cleaned content
\* that ends with "}" and parses is returned; a content that is JSON text of
\* an array, a string or a number is not returned and counts as truncated.
C19_ReturnsObject ==
    /\ gs_pc = "returned" =>
          /\ response.kind = "content"
          /\ LooksComplete(LatestCleaned)
          /\ json_loads(LatestCleaned).ok
          /\ video_schema = json_loads(LatestCleaned).v
          /\ video_schema.t = "obj"
    /\ ( /\ response.kind = "content"
         /\ ~IsEmptyContent(response.content)
         /\ LooksComplete(LatestCleaned)
         /\ json_loads(LatestCleaned).ok ) => gs_pc = "returned"
    /\ LatestIsOtherJson => gs_pc # "returned" /\ LastFailure = "truncated"

C19_Witness ==
    /\ gs_pc = "returned"
    /\ failures = <<"truncated">>
    /\ response.content = ObjectContent
    /\ video_schema = json_loads(ObjectContent).v
    /\ ~HasKey(video_schema, K_clips)

\* C20: a 200 response whose content is a JSON object in a markdown fence,
\* with or without a tag and with or without white space around the fence,
\* is cleaned, parsed and returned by the pass of the loop that received it.
C20_FencedObjectReturned ==
    (response.kind = "content" /\ response.content \in FencedObjects)
        => /\ gs_pc = "returned"
           /\ video_schema = json_loads(<<"{", "}">>).v

(***************************************************************************)
(* Properties of the waits of generate_scenes, checked under SpecScenes    *)
(***************************************************************************)
\* The failures that are retried with the fixed delay.
FixedDelayKinds ==
    {"status", "timeout", "request_error", "empty", "truncated", "unparseable"}

\* The place of the request of attempt k in the log, and the wait that
\* follows that request: 0 when none does.
PostAt(k) == CHOOSE j \in 1..Len(log) : log[j] = Post(k)

WaitAfter(k) ==
    IF PostAt(k) < Len(log) /\ log[PostAt(k) + 1].op = "sleep"
    THEN log[PostAt(k) + 1].arg
    ELSE 0

\* C21: a failure other than 429 that the loop retries (a status other than
\* 200, a timeout, another request error, an empty, truncated or unparseable
\* content) is followed on attempt 1 or 2 by a wait of retry_delay = 2
\* seconds, whatever the attempt, and then by the next pass of the loop; on
\* attempt 3 the exception of that failure is raised with no wait.
C21_FixedBackoff ==
    \A k \in 1..Len(failures) :
        failures[k] \in FixedDelayKinds =>
            IF k < max_retries
            THEN /\ WaitAfter(k) = retry_delay
                 /\ attempt >= k
                 /\ \/ gs_pc = "loop" /\ attempt = k
                    \/ PostAt(k + 1) = PostAt(k) + 2
            ELSE /\ PostAt(k) = Len(log)
                 /\ WaitAfter(k) = 0
                 /\ gs_pc = "raised"
                 /\ gs_error = Error("Exception", FailureMessage(failures[k]))

C21_Witness ==
    /\ gs_pc = "raised"
    /\ failures = <<"timeout", "empty", "truncated">>
    /\ log = <<Post(1), Sleep(retry_delay), Post(2), Sleep(retry_delay), Post(3)>>

(***************************************************************************)
(* Properties of the substitution table, checked under SpecSanitize        *)
(***************************************************************************)
\* The characters the table is documented to replace.
TableCharacters ==
    {LDQUO, RDQUO, "^", APPROX, PLUSMINUS, INFINITY, ELLIPSIS, ENDASH, EMDASH,
     NUL, CR, TAB}

\* Every run of white space of s is one space.
SingleSpaced(s) ==
    /\ \A j \in 1..Len(s) : s[j] \in PyWhitespace => s[j] = " "
    /\ \A j \in 1..(Len(s) - 1) : ~(s[j] = " " /\ s[j + 1] = " ")

\* C22: without escaping, the result of sanitize_prompt holds no curly quote,
\* no ^, no approximately-equal, plus-minus or infinity sign, no ellipsis
\* character, no en or em dash, no NUL, CR or TAB; ~10^26 is replaced as a
\* whole, before the entry of ^; and after the table the whitespace rule
\* of line 69 leaves every run of white space as one space.
C22_TableApplied ==
    (san_results # <<>> /\ ~san_escape) =>
        /\ \A j \in 1..Len(san_results[1]) :
              san_results[1][j] \notin TableCharacters
        /\ StartsWith(san_text, replacements[3][1])
              => StartsWith(san_results[1], replacements[3][2])
        /\ SingleSpaced(CollapseWhitespace(
                ApplyReplacements(san_text, Len(replacements))))

\* The seconds one call has waited.
RECURSIVE SumSeq(_)
SumSeq(q) == IF q = <<>> THEN 0 ELSE q[1] + SumSeq(Tail(q))

TotalWait == SumSeq(Waits)

\* The third attempt was answered with 429.
ThirdRateLimited == Len(failures) = max_retries /\ failures[max_retries] = "429"

\* C23: the third attempt is followed by a wait exactly when it was answered
\* with 429: the call then waits retry_delay * 3 = 6 seconds and raises; after
\* any other third attempt nothing follows its request; the waits of one
\* call add up to at most 2 + 4 + 6 = 12 seconds.
C23_WaitAfterLastOnly429 ==
    /\ ThirdRateLimited =>
          /\ log[Len(log)] = Sleep(retry_delay * max_retries)
          /\ log[Len(log) - 1] = Post(max_retries)
          /\ gs_pc = "raised"
    /\ (PostCount = max_retries /\ ~ThirdRateLimited) =>
          log[Len(log)] = Post(max_retries)
    /\ TotalWait <= retry_delay + 2 * retry_delay + 3 * retry_delay

C23_Witness ==
    /\ gs_pc = "raised"
    /\ failures = <<"429", "429", "429">>
    /\ Waits = <<retry_delay, 2 * retry_delay, 3 * retry_delay>>
    /\ TotalWait = 12

(***************************************************************************)
(* Properties of the output file of generate_video, checked under SpecVideo*)
(***************************************************************************)
\* C24: generate_video opens the output file only after replicate.run has
\* returned: when the credential check or replicate.run raises, no file is
\* created or changed; one call opens the file at most once, and the path it
\* returns is the path of the file it wrote.
C24_FileAfterService ==
    /\ files # <<>> => Len(sent) = 1 /\ gv_error.type \notin {"ValueError", "run_error"}
    /\ (gv_pc = "raised" /\ gv_error.type \in {"ValueError", "run_error"})
          => files = <<>>
    /\ Len(files) <= 1
    /\ gv_pc = "returned" =>
          files = <<[path |-> video_path, data |-> "video"]>>

C24_Witness ==
    /\ gv_pc = "raised"
    /\ gv_error.type = "run_error"
    /\ Len(sent) = 1
    /\ files = <<>>
    /\ video_path = "none"

=============================================================================
